---- MODULE Spec2Model ----
(***************************************************************************)
(* teuthology/coverage.py: the coverage aggregation run (_analyze), the    *)
(* lcov summary parser (read_coverage) and the database sink               *)
(* (store_coverage), as a state machine.                                   *)
(***************************************************************************)
EXTENDS Integers, Sequences, FiniteSets, TLC

\* ------------------------------------------------------------------ bounds
\* number of non-hidden entry names the results directory may hold
MaxTests == 2

\* ------------------------------------------------------ python data model
\* Python's None inside a (cov_num, cov_percent) pair
None == -1

\* an empty dict
EmptyDict == [k \in {} |-> <<>>]

\* d[k] = v
DictSet(d, k, v) == [x \in (DOMAIN d) \cup {k} |-> IF x = k THEN v ELSE d[x]]

\* dict.update: the keys of new override those of d
DictUpdate(d, new) == new @@ d

\* dict.get(k, default)
DictGet(d, k, default) == IF k \in DOMAIN d THEN d[k] ELSE default

\* Python's s[a:b] on a sequence (negative indices count from the end)
PyIndex(n, i) == IF i < 0 THEN (IF n + i < 0 THEN 0 ELSE n + i)
                 ELSE (IF i > n THEN n ELSE i)

PySlice(s, a, b) == SubSeq(s, PyIndex(Len(s), a) + 1, PyIndex(Len(s), b))

\* ------------------------------------------------------------ file names
\* every entry name the model uses, in the order sorted() gives them
\* ('.' sorts before the letters)
NameOrder == <<".hid", "a", "b", "c", "d">>

\* f.startswith('.')
StartsWithDot(f) == f = ".hid"

Names == {NameOrder[i] : i \in 1..(MaxTests + 1)}

\* os.path.basename(args.test_dir)
Suite == "suite"

\* 'total for {suite}'.format(suite=suite)
TotalLabel(suite) == IF suite = "suite" THEN "total for suite" ELSE "total for ?"

\* ------------------------------------------------------------ read_coverage
\* A text is a sequence of lines and a line a sequence of tokens [k, v]; the
\* characters of a line are those of its tokens one after the other:
\*   "pfx" v   one of the three prefixes (v = 1 lines, 2 functions, 3 branches)
\*   "int" v   an integer literal          "dec" v   a decimal literal, in tenths
\*   "pct"     '%'      "lpar"  '('      "of"  ' of'      "rpar"  ')'
\*   "sp" v    v blanks (v >= 1)
\*   "txt" v   v other characters, none of them a blank (v >= 1)
Tok(k, v) == [k |-> k, v |-> v]

\* len(prefix): each prefix has fifteen characters, the last one a blank
PrefixLen == 15

\* prefixes = ['  lines......: ', '  functions..: ', '  branches...: ']
prefixes == <<Tok("pfx", 1), Tok("pfx", 2), Tok("pfx", 3)>>

\* line.startswith(prefix)
StartsWith(line, prefix) == Len(line) >= 1 /\ line[1] = prefix

\* 'x' in line
Contains(line, k) == \E j \in 1..Len(line) : line[j].k = k

\* line.find('x'): 0-based position of the first occurrence, -1 when absent
Find(line, k) ==
    IF Contains(line, k)
    THEN (CHOOSE j \in 1..Len(line) :
              line[j].k = k /\ \A h \in 1..(j - 1) : line[h].k # k) - 1
    ELSE -1

\* s.strip(), as int() and float() do before they read a literal: the text
\* without the blanks at its two ends
Strip(s) ==
    SelectSeq([j \in 1..Len(s) |->
                  IF /\ \E a \in 1..j : s[a].k # "sp"
                     /\ \E b \in j..Len(s) : s[b].k # "sp"
                  THEN s[j] ELSE Tok("sp", 0)],
              LAMBDA t : t # Tok("sp", 0))

\* int(s): defined on one integer literal, ValueError otherwise
IntOk(s) == Len(Strip(s)) = 1 /\ Strip(s)[1].k = "int"
IntOf(s) == Strip(s)[1].v

\* float(s): defined on one integer or decimal literal (tenths), ValueError otherwise
FloatOk(s) == Len(Strip(s)) = 1 /\ Strip(s)[1].k \in {"int", "dec"}
FloatOf(s) == IF Strip(s)[1].k = "int" THEN 10 * Strip(s)[1].v ELSE Strip(s)[1].v

\* s[:-1]: the text without its last character. '%', '(' and ')' are one
\* character and go; an integer literal loses its last digit, blanks and other
\* text their last character (the token goes with its only character); a
\* decimal literal loses its one decimal digit and is still a decimal
\* ('85.'); ' of' is cut to ' o'; a prefix ends in a blank and is cut to
\* other text
DropLastChar(s) ==
    IF s = <<>> THEN <<>>
    ELSE LET last == s[Len(s)]
             front == SubSeq(s, 1, Len(s) - 1)
         IN CASE last.k \in {"pct", "lpar", "rpar"} -> front
              [] last.k = "int" ->
                   IF last.v >= 10 THEN Append(front, Tok("int", last.v \div 10))
                   ELSE front
              [] last.k = "dec" -> Append(front, Tok("dec", (last.v \div 10) * 10))
              [] last.k \in {"sp", "txt"} ->
                   IF last.v >= 2 THEN Append(front, Tok(last.k, last.v - 1))
                   ELSE front
              [] last.k = "of" -> front \o <<Tok("sp", 1), Tok("txt", 1)>>
              [] OTHER -> Append(front, Tok("txt", PrefixLen - 1))

\* line[line.find('(') + 1:line.find(' of')]: without ' of' the end index
\* is -1 and the slice runs to the last character but one of the line
NumField(line) ==
    IF Contains(line, "of")
    THEN PySlice(line, Find(line, "lpar") + 1, Find(line, "of"))
    ELSE DropLastChar(PySlice(line, Find(line, "lpar") + 1, Len(line)))

\* line[len(prefix):line.find('%')]
PercentField(line) == PySlice(line, 1, Find(line, "pct"))

\* a slot of coverage that is still None
Unset == <<>>

\* the index of the first prefix the line starts with, 0 when there is none
MatchedPrefix(line) ==
    IF \E i \in 1..3 : StartsWith(line, prefixes[i])
    THEN CHOOSE i \in 1..3 : StartsWith(line, prefixes[i])
                             /\ \A h \in 1..(i - 1) : ~StartsWith(line, prefixes[h])
    ELSE 0

\* the body of the inner loop for the matching prefix: does it raise?
LineRaises(line) ==
    /\ MatchedPrefix(line) # 0
    /\ Contains(line, "pct")
    /\ ~(IntOk(NumField(line)) /\ FloatOk(PercentField(line)))

\* variant: the pair built as (cov_percent, cov_num)
LineValueSwapped(line) ==
    IF Contains(line, "pct")
    THEN <<FloatOf(PercentField(line)), IntOf(NumField(line))>>
    ELSE <<None, None>>

\* the value assigned to coverage[i] for a matching line
LineValue(line) ==
    IF Contains(line, "pct")
    THEN <<IntOf(NumField(line)), FloatOf(PercentField(line))>>
    ELSE <<None, None>>

\* None not in coverage
AllAssigned(coverage) == \A i \in 1..3 : coverage[i] # Unset

\* for line in reversed(output.splitlines()), from line j upwards
RECURSIVE ScanLines(_, _, _)
ScanLines(lines, j, coverage) ==
    IF j = 0 THEN [raised |-> FALSE, coverage |-> coverage]
    ELSE IF LineRaises(lines[j]) THEN [raised |-> TRUE, coverage |-> coverage]
    ELSE LET i == MatchedPrefix(lines[j])
             cov == IF i = 0 THEN coverage
                    ELSE [coverage EXCEPT ![i] = LineValue(lines[j])]
         IN IF AllAssigned(cov) THEN [raised |-> FALSE, coverage |-> cov]
            ELSE ScanLines(lines, j - 1, cov)

\* read_coverage(output): raised (ValueError) or the list of three slots
read_coverage(output) == ScanLines(output, Len(output), <<Unset, Unset, Unset>>)

\* ------------------------------------------------------- sample tool output
\* '<prefix><pct>% (<n> of <m>)'
MetricLine(i, pct, n, m) ==
    <<prefixes[i], Tok("dec", pct), Tok("pct", 0), Tok("sp", 1), Tok("lpar", 0),
      Tok("int", n), Tok("of", 0), Tok("sp", 1), Tok("int", m), Tok("rpar", 0)>>

\* '<prefix>no data found'
NoDataLine(i) ==
    <<prefixes[i], Tok("txt", 2), Tok("sp", 1), Tok("txt", 4), Tok("sp", 1), Tok("txt", 5)>>

\* a line of other text: 'Reading'
OtherLine == <<Tok("txt", 7)>>

\* the summary cov-analyze.sh / lcov print for a trace
ReportFull == <<MetricLine(1, 853, 120, 140), MetricLine(2, 900, 9, 10),
                MetricLine(3, 500, 4, 8)>>

\* a summary of a first run: no branch data
ReportNoBranches == <<OtherLine, MetricLine(1, 700, 7, 10),
                      MetricLine(2, 1000, 2, 2), NoDataLine(3)>>

\* a tool that printed nothing (it failed before its summary)
ReportEmpty == <<>>

\* a metric line cut off before its counts
ReportTruncated == <<MetricLine(1, 853, 120, 140),
                     <<prefixes[2], Tok("dec", 900), Tok("pct", 0)>>>>

\* the texts the external tools write to standard output in the model
Outputs == {ReportFull, ReportNoBranches, ReportEmpty, ReportTruncated}

\* ------------------------------------------------- the results directory
\* sample summary.yaml files: the sequence of YAML documents of each
SummaryGcov     == <<("flavor" :> "other") @@ ("description" :> "d2") @@ ("ceph-sha1" :> "r1"),
                     ("flavor" :> "gcov") @@ ("description" :> "d1")>>
SummaryNoDesc   == <<("flavor" :> "gcov") @@ ("ceph-sha1" :> "r2")>>
SummaryOther    == <<("flavor" :> "other") @@ ("description" :> "d2") @@ ("ceph-sha1" :> "r1")>>
SummaryNoFlavor == <<("description" :> "d2") @@ ("ceph-sha1" :> "r1")>>
SummaryLateOther == <<("flavor" :> "gcov") @@ ("description" :> "d1") @@ ("ceph-sha1" :> "r1"),
                      ("flavor" :> "other")>>

Summaries == {SummaryGcov, SummaryNoDesc, SummaryOther, SummaryNoFlavor, SummaryLateOther}

\* what a name of the results directory may be: nothing, a plain file, or
\* a directory with or without summary.yaml (its documents) and ceph-sha1
Entry(exists, isdir, hasSummary, hasSha1, docs) ==
    [exists |-> exists, isdir |-> isdir, summary |-> hasSummary, sha1 |-> hasSha1,
     docs |-> docs]

NoEntry == Entry(FALSE, FALSE, FALSE, FALSE, <<>>)

Entries ==
    {NoEntry,
     Entry(TRUE, FALSE, FALSE, FALSE, <<>>),
     Entry(TRUE, TRUE, FALSE, TRUE, <<>>),
     Entry(TRUE, TRUE, TRUE, FALSE, SummaryGcov)}
    \cup {Entry(TRUE, TRUE, TRUE, TRUE, d) : d \in Summaries}

\* the hidden name is a complete coverage result directory
HiddenEntries == {Entry(TRUE, TRUE, TRUE, TRUE, SummaryGcov)}

Listings == {l \in [Names -> Entries] :
                \A f \in Names : StartsWithDot(f) => l[f] \in HiddenEntries}

\* ------------------------------------------------------------- the scanner
\* tests = [f for f in sorted(os.listdir(test_dir)) if not f.startswith('.')
\*          and isdir(f) and exists(f/summary.yaml) and exists(f/ceph-sha1)]
IsCandidate(dir, f) ==
    /\ f \in DOMAIN dir
    /\ dir[f].exists
    /\ ~StartsWithDot(f)
    /\ dir[f].isdir
    /\ dir[f].summary
    /\ dir[f].sha1

ListTests(dir) == SelectSeq(NameOrder, LAMBDA f : IsCandidate(dir, f))

\* summary = {}; for new in yaml.safe_load_all(f): summary.update(new)
RECURSIVE LoadSummary(_, _)
LoadSummary(docs, n) ==
    IF n = 0 THEN EmptyDict ELSE DictUpdate(LoadSummary(docs, n - 1), docs[n])

MergedSummary(dir, f) == LoadSummary(dir[f].docs, Len(dir[f].docs))

\* summary['flavor'] raises KeyError when the key is absent
FlavorRaises(dir, f) == "flavor" \notin DOMAIN MergedSummary(dir, f)

\* the loop over tests: KeyError at the first candidate without a flavor
ScanRaises(dir) == \E i \in 1..Len(ListTests(dir)) : FlavorRaises(dir, ListTests(dir)[i])

\* the number of iterations the loop over tests starts: all of them, or up
\* to and with the first candidate whose summary has no flavor
ScannedCount(dir) ==
    IF ScanRaises(dir)
    THEN CHOOSE i \in 1..Len(ListTests(dir)) :
             /\ FlavorRaises(dir, ListTests(dir)[i])
             /\ \A h \in 1..(i - 1) : ~FlavorRaises(dir, ListTests(dir)[h])
    ELSE Len(ListTests(dir))

\* the candidates whose iteration ran to its end
Scanned(dir) ==
    {ListTests(dir)[i] : i \in {h \in 1..ScannedCount(dir) :
                                    ~FlavorRaises(dir, ListTests(dir)[h])}}

\* variant: every candidate is kept, whatever its flavor
EligibleTestsUnfiltered(dir) == Scanned(dir)

\* the keys of test_summaries when the loop ends, by KeyError or not
EligibleTests(dir) == {f \in Scanned(dir) : MergedSummary(dir, f)["flavor"] = "gcov"}

\* test_summaries when the loop ends
ScanSummaries(dir) == [f \in EligibleTests(dir) |-> MergedSummary(dir, f)]

\* ------------------------------------------------ files of the lcov output
\* a trace file: where its baseline came from, the tests merged into it, and
\* whether it was written completely
Trace(src, merged, ok) == [src |-> src, tests |-> merged, ok |-> ok]

\* no file at that path
Absent == Trace("absent", {}, FALSE)

\* total.lcov as a previous run left it
PrevTotal == Trace("prev", {}, TRUE)

\* total_tmp.lcov as a previous run left it when it was stopped during a merge
StaleTmp == Trace("stale", {}, FALSE)

\* base.lcov as cov-init.sh writes it
BaseTrace == Trace("base", {}, TRUE)

\* the output directory before the run, (total.lcov, total_tmp.lcov): a run
\* without skip-init starts in an empty directory or after a finished run, a
\* run with skip-init resumes one that stopped between or during merges
InitialOutputDirs(skip) ==
    IF skip THEN {<<PrevTotal, Absent>>, <<PrevTotal, StaleTmp>>}
    ELSE {<<Absent, Absent>>, <<PrevTotal, Absent>>}

\* ------------------------------------------------- external tool outcomes
\* cov-analyze.sh: exit status, standard output, and whether it wrote
\* <test>.lcov
AnalyzerOutcomes ==
    {[rc |-> 0, out |-> ReportFull, wrote |-> TRUE],
     [rc |-> 1, out |-> ReportNoBranches, wrote |-> TRUE],
     [rc |-> 1, out |-> ReportEmpty, wrote |-> FALSE],
     [rc |-> 0, out |-> ReportTruncated, wrote |-> TRUE]}

\* lcov -a <test>.lcov -a total.lcov -o total_tmp.lcov: exit status, standard
\* output and what it leaves at total_tmp.lcov ("whole": the merge,
\* "part": a partly written merge, "none": nothing written)
MergerOutcomes ==
    {[rc |-> 0, out |-> ReportFull, wrote |-> "whole"],
     [rc |-> 1, out |-> ReportTruncated, wrote |-> "part"],
     [rc |-> 1, out |-> ReportEmpty, wrote |-> "none"]}

\* the file lcov leaves at the -o path
MergeResult(t, tot, old, wrote) ==
    CASE wrote = "whole" -> Trace(tot.src, tot.tests \cup {t}, tot.ok)
      [] wrote = "part"  -> Trace(tot.src, tot.tests \cup {t}, FALSE)
      [] OTHER           -> old

\* lcov can read both of its inputs
MergeInputsExist(t, tot, traces) == t \in traces /\ tot # Absent

\* ---------------------------------------------------------------- the state
VARIABLES
    dir, skip_init, html_output,   \* args.test_dir's entries, args.skip_init, args.html_output
    pc, exc,                       \* position in _analyze / store_coverage, exception raised
    tests, test_summaries, todo,   \* locals of _analyze; todo: keys the second loop has left
    test, summary, output, test_coverage,
    total, tmp, base, lcovs, html, \* total.lcov, total_tmp.lcov, base.lcov, <test>.lcov, html tree
    calls, total0,                 \* log of tool invocations and renames; total.lcov before the run
    db, rows,                      \* the database connection and the rows built for it
    parsed                         \* what a call of read_coverage on its own returned

inputs == <<dir, skip_init, html_output>>
locals == <<tests, test_summaries, todo, test, summary, output, test_coverage>>
files  == <<total, tmp, base, lcovs, html>>
hist   == <<calls, total0>>
dbvars == <<db, rows>>
vars   == <<inputs, pc, exc, locals, files, hist, dbvars, parsed>>

\* rows of earlier runs already in the coverage table
PriorRows == {<<"r0", "d0", "suite", 1, 10, 1, 10, 1, 10>>}

\* a connection not yet made
NoDb == [opened |-> FALSE, open |-> FALSE, cursor |-> FALSE, pending |-> {},
         committed |-> PriorRows, inserted |-> FALSE, insertFailed |-> FALSE,
         rollbacks |-> 0, rolledBack |-> FALSE, commits |-> 0]

\* an invocation of an external tool: its argument (template or test
\* directory), total.lcov as it was when the tool started, its exit status
\* and the standard output the driver captured from it; a completed
\* os.rename of total_tmp.lcov is logged the same way, as tool "rename"
Call(tool, arg, tot, status, out) ==
    [tool |-> tool, arg |-> arg, total |-> tot, rc |-> status, out |-> out]

\* the exit status of a tool the driver did not live to see exit
NoStatus == -1

\* read_coverage has not been called on its own
NotParsed == [raised |-> FALSE, coverage |-> <<>>]

Init ==
    /\ dir \in Listings
    /\ skip_init \in BOOLEAN
    /\ html_output \in BOOLEAN
    /\ pc = "scan"
    /\ exc = "none"
    /\ tests = <<>>
    /\ test_summaries = EmptyDict
    /\ todo = {}
    /\ test = ""
    /\ summary = EmptyDict
    /\ output = <<>>
    /\ test_coverage = EmptyDict
    /\ \E o \in InitialOutputDirs(skip_init) : total = o[1] /\ tmp = o[2]
    /\ base = Absent
    /\ lcovs = {}
    /\ html = FALSE
    /\ calls = <<>>
    /\ total0 = total
    /\ db = NoDb
    /\ rows = {}
    /\ parsed = NotParsed

\* an exception leaves _analyze
Raise(e) == pc' = "aborted" /\ exc' = e

\* ----------------------------------------------------------------- _analyze
\* variant: the assertion looks at the candidates instead of the summaries kept
NoneEligibleOfCandidates(ts, summaries) == Len(ts) = 0

\* assert len(test_summaries) > 0 fails
NoneEligible(ts, summaries) == DOMAIN summaries = {}

\* variant: the skip flag is not consulted
AfterScanAlwaysInit(skip) == "init"

\* if not args.skip_init: the step that follows the scan
AfterScan(skip) == IF skip THEN "analyze" ELSE "init"

\* lines 131-151: list the candidates, load and filter the summaries, assert;
\* the loop leaves its variables test and summary bound to the candidate of
\* its last iteration
Scan ==
    /\ pc = "scan"
    /\ tests' = ListTests(dir)
    /\ test_summaries' = ScanSummaries(dir)
    /\ todo' = DOMAIN ScanSummaries(dir)
    /\ IF Len(ListTests(dir)) = 0
       THEN UNCHANGED <<test, summary>>
       ELSE /\ test' = ListTests(dir)[ScannedCount(dir)]
            /\ summary' = MergedSummary(dir, ListTests(dir)[ScannedCount(dir)])
    /\ IF ScanRaises(dir)
       THEN Raise("KeyError")
       ELSE IF NoneEligible(ListTests(dir), ScanSummaries(dir))
            THEN Raise("AssertionError")
            ELSE pc' = AfterScan(skip_init) /\ exc' = exc
    /\ UNCHANGED <<inputs, parsed, output, test_coverage, files, hist, dbvars>>

\* os.path.join(args.test_dir, tests[0]): the template handed to cov-init.sh
InitTemplate(ts) == ts[1]

\* base.lcov after cov-init.sh: the script writes it or leaves the path as
\* it was, whatever its exit status; a failing script may also have stopped
\* while writing it
InitWrites(status, b) ==
    IF status = 0 THEN {BaseTrace, b}
    ELSE {BaseTrace, Trace("base", {}, FALSE), b}

\* variant: cov-init.sh's exit status is not checked (subprocess.call)
CovInitUnchecked ==
    /\ pc = "init"
    /\ \/ /\ Raise("OSError")
          /\ UNCHANGED <<base, calls>>
       \/ \E status \in {0, 1} :
            /\ calls' = Append(calls, Call("cov-init", InitTemplate(tests), total, status, <<>>))
            /\ base' \in InitWrites(status, base)
            /\ pc' = "copy"
            /\ exc' = exc
    /\ UNCHANGED <<inputs, parsed, locals, total, tmp, lcovs, html, total0, dbvars>>

\* lines 157-168: subprocess.check_call of cov-init.sh
CovInit ==
    /\ pc = "init"
    /\ \/ /\ Raise("OSError")
          /\ UNCHANGED <<base, calls>>
       \/ \E status \in {0, 1} :
            /\ calls' = Append(calls, Call("cov-init", InitTemplate(tests), total, status, <<>>))
            /\ base' \in InitWrites(status, base)
            /\ IF status = 0
               THEN pc' = "copy" /\ exc' = exc
               ELSE Raise("CalledProcessError")
    /\ UNCHANGED <<inputs, parsed, locals, total, tmp, lcovs, html, total0, dbvars>>

\* total.lcov when the run is killed while shutil.copy writes it
PartCopy(b) == Trace(b.src, b.tests, FALSE)

\* lines 169-172: shutil.copy(base.lcov, total.lcov): IOError when there is
\* no base.lcov to open; total.lcov is written in place, so a run killed
\* during the copy leaves it partly written
CopyBase ==
    /\ pc = "copy"
    /\ IF base = Absent
       THEN Raise("IOError") /\ total' = total
       ELSE \/ total' = base /\ pc' = "analyze" /\ exc' = exc
            \/ total' = PartCopy(base) /\ pc' = "crashed" /\ exc' = "killed"
    /\ UNCHANGED <<inputs, parsed, locals, tmp, base, lcovs, html, hist, dbvars>>

\* variant: the entry is keyed by the directory name
DescriptionIsTestName(s, t) == t

\* summary.get('description', test)
Description(s, t) == DictGet(s, "description", t)

\* lines 179-188: proc.communicate() waits for cov-analyze.sh; its
\* returncode is not read, the loop body goes on to the merge
AfterAnalyzer(status) == "merge"

\* lines 175-190: the next key of test_summaries (a dict: in no particular
\* order), cov-analyze.sh on it, and its parsed output stored under desc
Analyze ==
    /\ pc = "analyze"
    /\ \E t \in todo :
         /\ test' = t
         /\ summary' = test_summaries[t]
         /\ todo' = todo \ {t}
         /\ \/ /\ Raise("OSError")
               /\ UNCHANGED <<output, test_coverage, lcovs, calls>>
            \/ \E o \in AnalyzerOutcomes :
                 /\ calls' = Append(calls, Call("cov-analyze", t, total, o.rc, o.out))
                 /\ lcovs' = IF o.wrote THEN lcovs \cup {t} ELSE lcovs
                 /\ output' = o.out
                 /\ IF read_coverage(o.out).raised
                    THEN Raise("ValueError") /\ test_coverage' = test_coverage
                    ELSE /\ test_coverage' =
                              DictSet(test_coverage, Description(test_summaries[t], t),
                                      read_coverage(o.out).coverage)
                         /\ pc' = AfterAnalyzer(o.rc)
                         /\ exc' = exc
    /\ UNCHANGED <<inputs, parsed, tests, test_summaries, total, tmp, base, html, total0, dbvars>>

\* variant: the merger's standard output is not kept
MergeOutputDiscarded(old, new) == old

\* line 202: output, _ = proc.communicate() rebinds the local output
MergeOutput(old, new) == new

\* variant: the merge is run with check_call; a non-zero status ends the run
AfterMergerChecked(status) == IF status = 0 THEN "rename" ELSE "aborted"

\* lines 193-204: proc.communicate() waits for lcov; its returncode is not
\* read, the loop body goes on to the rename
AfterMerger(status) == "rename"

\* lines 193-202: lcov merges <test>.lcov and total.lcov into total_tmp.lcov;
\* Popen may fail to start it, and the run may be killed while lcov writes
Merge ==
    /\ pc = "merge"
    /\ \/ /\ Raise("OSError")
          /\ UNCHANGED <<output, tmp, calls>>
       \/ /\ MergeInputsExist(test, total, lcovs)
          /\ calls' = Append(calls, Call("lcov", test, total, NoStatus, <<>>))
          /\ tmp' = MergeResult(test, total, tmp, "part")
          /\ pc' = "crashed"
          /\ exc' = "killed"
          /\ output' = output
       \/ \E o \in MergerOutcomes :
            /\ o.wrote # "none" => MergeInputsExist(test, total, lcovs)
            /\ calls' = Append(calls, Call("lcov", test, total, o.rc, o.out))
            /\ output' = MergeOutput(output, o.out)
            /\ tmp' = MergeResult(test, total, tmp, o.wrote)
            /\ pc' = AfterMerger(o.rc)
            /\ exc' = exc
    /\ UNCHANGED <<inputs, parsed, tests, test_summaries, todo, test, summary, test_coverage,
                   total, base, lcovs, html, total0, dbvars>>

\* lines 204-207: os.rename(total_tmp.lcov, total.lcov)
Rename ==
    /\ pc = "rename"
    /\ IF tmp = Absent
       THEN Raise("OSError") /\ UNCHANGED <<total, tmp, calls>>
       ELSE /\ total' = tmp
            /\ tmp' = Absent
            /\ calls' = Append(calls, Call("rename", test, total, 0, <<>>))
            /\ pc' = "analyze"
            /\ exc' = exc
    /\ UNCHANGED <<inputs, parsed, locals, base, lcovs, html, total0, dbvars>>

\* lines 209-211: the loop is over; the total entry
Finalize ==
    /\ pc = "analyze"
    /\ todo = {}
    /\ IF read_coverage(output).raised
       THEN Raise("ValueError") /\ test_coverage' = test_coverage
       ELSE /\ test_coverage' =
                 DictSet(test_coverage, TotalLabel(Suite),
                         read_coverage(output).coverage)
            /\ pc' = (IF html_output THEN "html" ELSE "store")
            /\ exc' = exc
    /\ UNCHANGED <<inputs, parsed, tests, test_summaries, todo, test, summary, output,
                   files, hist, dbvars>>

\* variant: genhtml's exit status is not checked (subprocess.call)
GenHtmlUnchecked ==
    /\ pc = "html"
    /\ \/ /\ Raise("OSError")
          /\ UNCHANGED <<html, calls>>
       \/ \E status \in {0, 1} :
            /\ calls' = Append(calls, Call("genhtml", "total", total, status, <<>>))
            /\ html' = (status = 0)
            /\ pc' = "store"
            /\ exc' = exc
    /\ UNCHANGED <<inputs, parsed, locals, total, tmp, base, lcovs, total0, dbvars>>

\* lines 213-222: subprocess.check_call of genhtml on total.lcov
GenHtml ==
    /\ pc = "html"
    /\ \/ /\ Raise("OSError")
          /\ UNCHANGED <<html, calls>>
       \/ \E status \in {0, 1} :
            /\ calls' = Append(calls, Call("genhtml", "total", total, status, <<>>))
            /\ IF status = 0
               THEN html' = TRUE /\ pc' = "store" /\ exc' = exc
               ELSE html' = html /\ Raise("CalledProcessError")
    /\ UNCHANGED <<inputs, parsed, locals, total, tmp, base, lcovs, total0, dbvars>>

\* ----------------------------------------------------------- store_coverage
\* [item for sublist in coverage for item in sublist]: iterating a slot
\* that is None raises TypeError
FlattenRaises(coverage) == \E i \in 1..3 : coverage[i] = Unset

Flatten(coverage) == coverage[1] \o coverage[2] \o coverage[3]

\* variant: the row built as [suite, test, rev] + flattened_cov
RowSuiteFirst(rev, t, suite, coverage) == <<suite, t, rev>> \o Flatten(coverage)

\* [rev, test, suite] + flattened_cov
Row(rev, t, suite, coverage) == <<rev, t, suite>> \o Flatten(coverage)

\* lines 26-29: one row per item of test_coverage
BuildRows(tc, rev, suite) == {Row(rev, t, suite, tc[t]) : t \in DOMAIN tc}

BuildRowsRaises(tc) == \E t \in DOMAIN tc : FlattenRaises(tc[t])

\* the revision line 224 passes: summary is the loop variable of line 175
StoreRev(s) == s["ceph-sha1"]

\* line 224 and line 25: evaluate summary['ceph-sha1'], then connect_to_db
\* (lines 14-22): MySQLdb.connect may raise, and so may db.autocommit(False)
\* on the connection just made, which nothing closes then: closing() has
\* not been entered
Connect ==
    /\ pc = "store"
    /\ IF "ceph-sha1" \notin DOMAIN summary
       THEN Raise("KeyError") /\ db' = db
       ELSE \/ Raise("OperationalError") /\ db' = db
            \/ /\ db' = [db EXCEPT !.opened = TRUE, !.open = TRUE]
               /\ Raise("OperationalError")
            \/ /\ db' = [db EXCEPT !.opened = TRUE, !.open = TRUE]
               /\ pc' = "rows"
               /\ exc' = exc
    /\ UNCHANGED <<inputs, parsed, locals, files, hist, rows>>

\* line 25: closing(...).__exit__ closes the connection; what the
\* transaction still holds uncommitted is discarded
CloseDb(d) == [d EXCEPT !.open = FALSE, !.pending = {}]

\* rows when flattening raises: the rows of the entries that came before the
\* failing one, in the order the dict gives them (no particular order)
RowsBeforeFailure(tc, rev, suite) ==
    {BuildRows([t \in S |-> tc[t]], rev, suite) :
         S \in SUBSET {t \in DOMAIN tc : ~FlattenRaises(tc[t])}}

\* lines 26-29: build the rows; an exception here leaves the with block,
\* which closes the connection
MakeRows ==
    /\ pc = "rows"
    /\ IF BuildRowsRaises(test_coverage)
       THEN /\ rows' \in RowsBeforeFailure(test_coverage, StoreRev(summary), Suite)
            /\ db' = CloseDb(db)
            /\ Raise("TypeError")
       ELSE /\ rows' = BuildRows(test_coverage, StoreRev(summary), Suite)
            /\ db' = db
            /\ exc' = exc
            /\ pc' = "cursor"
    /\ UNCHANGED <<inputs, parsed, locals, files, hist>>

\* where the except clause goes once the insert has failed
AfterInsertFailure == "rollback"

\* line 32: cursor = db.cursor()
Cursor ==
    /\ pc = "cursor"
    /\ \/ db' = [db EXCEPT !.cursor = TRUE] /\ pc' = "execute" /\ exc' = exc
       \/ /\ db' = [db EXCEPT !.insertFailed = TRUE]
          /\ exc' = "InsertError"
          /\ pc' = AfterInsertFailure
    /\ UNCHANGED <<inputs, parsed, locals, files, hist, rows>>

\* what a failed executemany may leave inserted in the open transaction:
\* any of the rows, from none to all of them
PartialInserts(rs) == SUBSET rs

\* lines 33-38: cursor.executemany; a failure leaves some of the rows
\* inserted in the open transaction
Execute ==
    /\ pc = "execute"
    /\ \/ /\ db' = [db EXCEPT !.pending = rows, !.inserted = TRUE]
          /\ pc' = "commit"
          /\ exc' = exc
       \/ \E part \in PartialInserts(rows) :
            /\ db' = [db EXCEPT !.pending = part, !.insertFailed = TRUE]
            /\ exc' = "InsertError"
            /\ pc' = AfterInsertFailure
    /\ UNCHANGED <<inputs, parsed, locals, files, hist, rows>>

\* lines 39-42: db.rollback(), then re-raise
Rollback ==
    /\ pc = "rollback"
    /\ \/ /\ db' = [db EXCEPT !.pending = {}, !.rollbacks = @ + 1, !.rolledBack = TRUE]
          /\ exc' = exc
       \/ /\ db' = [db EXCEPT !.rollbacks = @ + 1]
          /\ exc' = "RollbackError"
    /\ pc' = "cursor_close"
    /\ UNCHANGED <<inputs, parsed, locals, files, hist, rows>>

\* lines 43-45: db.commit()
Commit ==
    /\ pc = "commit"
    /\ \/ /\ db' = [db EXCEPT !.committed = @ \cup db.pending, !.pending = {},
                              !.commits = @ + 1]
          /\ exc' = exc
       \/ /\ db' = [db EXCEPT !.commits = @ + 1]
          /\ exc' = "CommitError"
    /\ pc' = "cursor_close"
    /\ UNCHANGED <<inputs, parsed, locals, files, hist, rows>>

\* the exception that leaves the finally clause: cursor.close() on a name
\* that is unbound when db.cursor() raised gives UnboundLocalError, which
\* replaces the exception that was being raised
AfterCursorClose(bound, e) == IF bound THEN e ELSE "UnboundLocalError"

\* lines 46-47 and 25: finally: cursor.close(), then the with block is left
\* and the connection closed
CursorClose ==
    /\ pc = "cursor_close"
    /\ exc' = AfterCursorClose(db.cursor, exc)
    /\ db' = CloseDb([db EXCEPT !.cursor = FALSE])
    /\ pc' = (IF AfterCursorClose(db.cursor, exc) = "none" THEN "done" ELSE "aborted")
    /\ UNCHANGED <<inputs, parsed, locals, files, hist, rows>>

Next ==
    \/ Scan
    \/ CovInit
    \/ CopyBase
    \/ Analyze
    \/ Merge
    \/ Rename
    \/ Finalize
    \/ GenHtml
    \/ Connect
    \/ MakeRows
    \/ Cursor
    \/ Execute
    \/ Rollback
    \/ Commit
    \/ CursorClose

Spec == Init /\ [][Next]_vars

\* ------------------------------------------------ read_coverage on its own
\* the longest text given to read_coverage, in lines
MaxLines == 4

\* a metric line cut off before its counts
TruncatedLine(i) == <<prefixes[i], Tok("dec", 900), Tok("pct", 0)>>

\* a metric line cut off inside its first count: '<prefix><pct>% (<n>'
CutCountLine(i, pct, n) ==
    <<prefixes[i], Tok("dec", pct), Tok("pct", 0), Tok("sp", 1), Tok("lpar", 0),
      Tok("int", n)>>

\* a metric line cut off inside ' of': '<prefix><pct>% (<n> o'
CutOfLine(i, pct, n) == CutCountLine(i, pct, n) \o <<Tok("sp", 1), Tok("txt", 1)>>

\* a line that starts with no prefix but holds a percentage and counts
OtherRateLine ==
    <<Tok("txt", 5), Tok("sp", 1), Tok("dec", 250), Tok("pct", 0), Tok("sp", 1),
      Tok("lpar", 0), Tok("int", 1), Tok("of", 0), Tok("sp", 1), Tok("int", 4),
      Tok("rpar", 0)>>

\* the lines the texts are made of
LineSamples ==
    {MetricLine(1, 853, 120, 140), MetricLine(1, 700, 7, 10), MetricLine(2, 900, 9, 10),
     MetricLine(3, 500, 4, 8), NoDataLine(3), TruncatedLine(2), CutCountLine(1, 853, 120),
     CutOfLine(2, 900, 9), OtherLine, OtherRateLine}

\* every text of at most MaxLines of these lines
Texts == UNION {[1..k -> LineSamples] : k \in 0..MaxLines}

\* a caller about to pass a text to read_coverage
InitParse ==
    /\ dir = [f \in Names |-> NoEntry]
    /\ skip_init = FALSE
    /\ html_output = FALSE
    /\ pc = "parse"
    /\ exc = "none"
    /\ tests = <<>>
    /\ test_summaries = EmptyDict
    /\ todo = {}
    /\ test = ""
    /\ summary = EmptyDict
    /\ output \in Texts
    /\ test_coverage = EmptyDict
    /\ total = Absent
    /\ tmp = Absent
    /\ base = Absent
    /\ lcovs = {}
    /\ html = FALSE
    /\ calls = <<>>
    /\ total0 = total
    /\ db = NoDb
    /\ rows = {}
    /\ parsed = NotParsed

\* coverage = read_coverage(output), or the ValueError of int() / float()
ReadCoverage ==
    /\ pc = "parse"
    /\ parsed' = read_coverage(output)
    /\ IF read_coverage(output).raised
       THEN Raise("ValueError")
       ELSE pc' = "parsed" /\ exc' = exc
    /\ UNCHANGED <<inputs, locals, files, hist, dbvars>>

NextParse == ReadCoverage

SpecParse == InitParse /\ [][NextParse]_vars

\* ------------------------------------------------------------------- claims
\* positions in store_coverage after the connection was made
StorePcs == {"rows", "cursor", "execute", "rollback", "commit", "cursor_close", "done"}

\* positions inside store_coverage, where only db changes: the log of calls
\* and the rows are what they were when the cursor was asked for and are
\* looked at again when store_coverage has ended
MidStorePcs == {"rows", "cursor", "execute", "rollback", "commit", "cursor_close"}

\* positions between the finalize step and the call of store_coverage
FinalizedPcs == {"html", "store"}

\* the positions in calls of the invocations of a tool
CallsOf(tool) == {i \in 1..Len(calls) : calls[i].tool = tool}

\* the position of the most recent invocation of a tool that exited
LastExited(tool) ==
    CHOOSE i \in CallsOf(tool) :
        /\ calls[i].rc # NoStatus
        /\ \A j \in CallsOf(tool) : calls[j].rc # NoStatus => j <= i

\* lexical order of entry names
NameLess(f, g) ==
    \E i, j \in 1..Len(NameOrder) : NameOrder[i] = f /\ NameOrder[j] = g /\ i < j

\* the entries the spec's scanner selects: not hidden, a directory holding
\* both files, merged flavor equal to 'gcov'
Selected ==
    {f \in Names : /\ ~StartsWithDot(f)
                   /\ dir[f].exists /\ dir[f].isdir /\ dir[f].summary /\ dir[f].sha1
                   /\ DictGet(MergedSummary(dir, f), "flavor", "") = "gcov"}

\* the label of each selected test: its description, else its directory name
Labels == {DictGet(MergedSummary(dir, f), "description", f) : f \in Selected}

\* store_coverage has returned or raised
StoreEnded == db.opened /\ pc \in {"done", "aborted"}

\* C1 (as claimed): store_coverage is all-or-nothing: the rows committed when it
\* returns or raises are all rows of the dataset or none; commit runs only
\* after the insert of all rows succeeded; on an insert failure (cursor
\* creation or executemany) rollback runs, commit does not, and that
\* failure is what the caller sees raised.
C1_StoreAllOrNothing ==
    /\ db.commits > 0 => db.inserted /\ ~db.insertFailed
    /\ db.insertFailed /\ pc \in {"cursor_close", "done", "aborted"}
           => db.rollbacks = 1 /\ db.commits = 0
    /\ StoreEnded =>
         /\ \/ db.committed = PriorRows
            \/ /\ db.committed = PriorRows \cup rows
               /\ Cardinality(rows) = Cardinality(DOMAIN test_coverage)
         /\ db.insertFailed /\ db.rolledBack => pc = "aborted" /\ exc = "InsertError"

\* C2: the database is touched (a connection opened, rows built or inserted)
\* only after the scan, the init step, every per-test analyze, merge and
\* rename, the finalize step and, when requested, the HTML generation have
\* completed; a run that aborts earlier leaves the database as it was.
C2_DbTouchedLast ==
    (db # NoDb \/ rows # {}) =>
        /\ pc \in StorePcs \cup {"aborted"}
        /\ DOMAIN test_summaries # {}
        /\ todo = {}
        /\ ~skip_init => /\ \E i \in CallsOf("cov-init") : calls[i].rc = 0
                         /\ base = BaseTrace
        /\ \A t \in DOMAIN test_summaries :
             /\ \E i \in CallsOf("cov-analyze") : calls[i].arg = t
             /\ \E i \in CallsOf("lcov") : calls[i].arg = t /\ calls[i].rc # NoStatus
        /\ Cardinality(CallsOf("lcov")) = Cardinality(DOMAIN test_summaries)
        /\ tmp = Absent
        /\ TotalLabel(Suite) \in DOMAIN test_coverage
        /\ html_output => html /\ \E i \in CallsOf("genhtml") : calls[i].rc = 0

\* C2 witness: the run aborted at the HTML step and the database is untouched
C2_Witness ==
    /\ pc = "aborted"
    /\ exc = "CalledProcessError"
    /\ \E i \in CallsOf("genhtml") : calls[i].rc = 1
    /\ TotalLabel(Suite) \in DOMAIN test_coverage
    /\ db = NoDb
    /\ rows = {}

\* C3: when no candidate is eligible after the scan, the run aborts before
\* any external tool is invoked, before total.lcov is created or modified
\* and before the database is touched.
C3_NoEligibleAborts ==
    \/ /\ pc \in {"scan", "aborted"}
       /\ calls = <<>>
       /\ total = total0
       /\ base = Absent
       /\ lcovs = {}
       /\ ~html
       /\ db = NoDb
       /\ rows = {}
    \/ Selected # {}

\* C3 witness: there were candidates, none with flavor gcov, and the assert failed
C3_Witness ==
    /\ Selected = {}
    /\ Len(tests) > 0
    /\ pc = "aborted"
    /\ exc = "AssertionError"
    /\ calls = <<>>

\* C4 (as claimed): after the scan the tests kept are exactly the selected
\* entries, and a candidate whose flavor is not 'gcov' (other value or key
\* absent) is skipped without aborting the run.
C4_ScannerSelection ==
    pc # "scan" => /\ DOMAIN test_summaries = Selected
                   /\ exc # "KeyError"

\* C5 (as claimed): for eligible tests a < b in lexical order, a is analyzed
\* and merged before b is analyzed.
C5_LexicalOrder ==
    \A i \in CallsOf("cov-analyze") :
        \A a \in Selected :
            NameLess(a, calls[i].arg) =>
                /\ \E j \in CallsOf("cov-analyze") : j < i /\ calls[j].arg = a
                /\ \E j \in CallsOf("lcov") : j < i /\ calls[j].arg = a

\* C6 (as claimed): without skip-init the initializer is invoked exactly once,
\* before any per-test analyzer, with the lexically smallest eligible test
\* directory as template.
C6_InitTemplate ==
    ~skip_init =>
        /\ Cardinality(CallsOf("cov-init")) <= 1
        /\ CallsOf("cov-analyze") # {} => CallsOf("cov-init") = {1}
        /\ \A i \in CallsOf("cov-init") :
             /\ calls[i].arg \in Selected
             /\ \A f \in Selected : ~NameLess(f, calls[i].arg)

\* C7: with skip-init the initializer is never invoked and base.lcov is
\* never copied over total.lcov: total.lcov is what the previous run left
\* until the first rename, and the first merge reads that file.
C7_SkipInitKeepsTotal ==
    skip_init =>
        /\ CallsOf("cov-init") = {}
        /\ base = Absent
        /\ \A i \in 1..Len(calls) :
             (\A j \in 1..(i - 1) : calls[j].tool # "lcov") => calls[i].total = total0
        /\ (CallsOf("lcov") = {} \/ (Cardinality(CallsOf("lcov")) = 1 /\ pc = "rename"))
               => total = total0

\* C7 witness: a resumed run has merged its first test into the previous
\* total and is about to rename
C7_Witness ==
    /\ skip_init
    /\ total0 = PrevTotal
    /\ pc = "rename"
    /\ Cardinality(CallsOf("lcov")) = 1
    /\ total = PrevTotal
    /\ tmp = Trace("prev", {test}, TRUE)

\* the run is in the loop over the eligible tests, or was when it ended
InLoop == pc \in {"analyze", "merge", "rename"} \/ CallsOf("cov-analyze") # {}

\* C8 (as claimed): in every state of the loop, a crash during a merge
\* included, total.lcov holds the previous complete cumulative trace or the
\* complete result of a merge, never a partly written one.
C8_TotalNeverPartial == InLoop => (total = total0 \/ total.ok)

\* C9 (as claimed): the 'total for <suite>' entry is the parser's result on
\* the standard output of the last per-test analyzer invocation.
C9_TotalFromLastAnalysis ==
    pc \in FinalizedPcs =>
        test_coverage[TotalLabel(Suite)]
            = read_coverage(calls[LastExited("cov-analyze")].out).coverage

\* C9 (amended): the 'total for <suite>' entry is the parser's result on the
\* standard output of the last merger (lcov -a) invocation of the loop.
C9_TotalFromLastMerge ==
    pc \in FinalizedPcs =>
        test_coverage[TotalLabel(Suite)]
            = read_coverage(calls[LastExited("lcov")].out).coverage

\* C9 witness: the last analyzer and the last merger printed different
\* summaries and the total entry is the merger's
C9_Witness ==
    /\ pc = "store"
    /\ calls[LastExited("cov-analyze")].out = ReportNoBranches
    /\ calls[LastExited("lcov")].out = ReportFull
    /\ test_coverage[TotalLabel(Suite)] = read_coverage(ReportFull).coverage
    /\ test_coverage[TotalLabel(Suite)] # read_coverage(ReportNoBranches).coverage

\* C10 (as claimed): a run with n eligible tests that reaches the
\* persistence step has a dataset of exactly n + 1 entries.
C10_CardinalityNPlusOne ==
    pc \in FinalizedPcs =>
        Cardinality(DOMAIN test_coverage) = Cardinality(Selected) + 1

\* C10 (amended): the dataset that reaches the persistence step has one
\* entry per distinct label of the eligible tests (description, else
\* directory name) plus the 'total for <suite>' entry, which is added after
\* the per-test entries; that is n + 1 entries exactly when the labels are
\* pairwise distinct and none of them is 'total for <suite>'.
C10_OneEntryPerLabel ==
    /\ pc \in {"merge", "rename"} \/ (pc = "analyze" /\ todo # {})
           => DOMAIN test_coverage \subseteq Labels
    /\ pc \in FinalizedPcs =>
         /\ DOMAIN test_coverage = Labels \cup {TotalLabel(Suite)}
         /\ (Cardinality(DOMAIN test_coverage) = Cardinality(Selected) + 1)
                <=> /\ Cardinality(Labels) = Cardinality(Selected)
                    /\ TotalLabel(Suite) \notin Labels

\* C10 witness: two eligible tests carry the same description and the
\* dataset at the persistence step has two entries
C10_Witness ==
    /\ pc = "store"
    /\ Cardinality(Selected) = 2
    /\ Cardinality(Labels) = 1
    /\ Cardinality(DOMAIN test_coverage) = 2


\* the lines of a text that start with prefix i
LinesOf(text, i) == {j \in 1..Len(text) : StartsWith(text[j], prefixes[i])}

\* the bottom-most line of a text that starts with prefix i
BottomLine(text, i) == CHOOSE j \in LinesOf(text, i) : \A h \in LinesOf(text, i) : h <= j

\* C11: each slot holds the values of the bottom-most line that starts with
\* its prefix; a line further up with the same prefix is never parsed, so it
\* neither changes the slot nor makes the call raise
C11_LastLineWins ==
    /\ pc = "parsed" =>
          \A i \in 1..3 : LinesOf(output, i) # {} =>
              parsed.coverage[i] = LineValue(output[BottomLine(output, i)])
    /\ (pc = "aborted" /\ exc = "ValueError") =>
          \E i \in 1..3 : /\ LinesOf(output, i) # {}
                          /\ LineRaises(output[BottomLine(output, i)])

\* a slot that is a pair with both fields present or both absent
IsMetricPair(slot) == Len(slot) = 2 /\ (slot[1] = None <=> slot[2] = None)

\* C12: missing metric data is no error anywhere: every dataset entry is three
\* pairs, each with both fields present or both absent, and store_coverage
\* makes a row of nine values of every entry without raising
C12_MissingDataNoError ==
    /\ \A l \in DOMAIN test_coverage :
          /\ Len(test_coverage[l]) = 3
          /\ \A i \in 1..3 : IsMetricPair(test_coverage[l][i])
    /\ exc # "TypeError"
    /\ \A r \in rows : Len(r) = 9

\* a text without its line j
RemoveAt(text, j) == SubSeq(text, 1, j - 1) \o SubSeq(text, j + 1, Len(text))

\* C13: when the one line that starts with a metric's prefix has no '%', the
\* call does not raise on it, the slot becomes (None, None), and the other two
\* slots are what they are for the text without that line
C13_NoDataLine ==
    pc \in {"parsed", "aborted"} =>
        \A i \in 1..3 :
            (Cardinality(LinesOf(output, i)) = 1
             /\ ~Contains(output[BottomLine(output, i)], "pct")) =>
                LET rest == read_coverage(RemoveAt(output, BottomLine(output, i)))
                IN /\ parsed.raised = rest.raised
                   /\ ~parsed.raised =>
                         /\ parsed.coverage[i] = <<None, None>>
                         /\ \A k \in 1..3 \ {i} : parsed.coverage[k] = rest.coverage[k]

\* a line of the form '<prefix><pct>% (<n> of <m>)'
IsMetricLine(line) ==
    /\ Len(line) = 10
    /\ line[1].k = "pfx" /\ line[2].k = "dec" /\ line[3].k = "pct"
    /\ line[4] = Tok("sp", 1) /\ line[5].k = "lpar" /\ line[6].k = "int"
    /\ line[7].k = "of" /\ line[8] = Tok("sp", 1) /\ line[9].k = "int"
    /\ line[10].k = "rpar"

\* each prefix starts exactly one line of the text, and that line has the form
CompleteReport(text) ==
    \A i \in 1..3 : /\ Cardinality(LinesOf(text, i)) = 1
                    /\ IsMetricLine(text[BottomLine(text, i)])

\* C14: on a complete report the parser returns, without raising, the pair
\* (n, pct) of the line of each prefix, in the order lines, functions,
\* branches, whatever the order of the lines and the other lines around them
C14_CompleteReport ==
    (pc \in {"parsed", "aborted"} /\ CompleteReport(output)) =>
        /\ pc = "parsed"
        /\ Len(parsed.coverage) = 3
        /\ \A i \in 1..3 :
              parsed.coverage[i] = <<output[BottomLine(output, i)][6].v,
                                     output[BottomLine(output, i)][2].v>>

\* a complete report parsed, its branches line first and a line without
\* prefix between the metric lines
C14_Witness ==
    /\ pc = "parsed"
    /\ CompleteReport(output)
    /\ Len(output) = 4
    /\ StartsWith(output[1], prefixes[3])
    /\ MatchedPrefix(output[2]) = 0
    /\ StartsWith(output[4], prefixes[1])
    /\ parsed.coverage = <<<<120, 853>>, <<9, 900>>, <<4, 500>>>>

\* C15: a connection store_coverage has opened is closed when store_coverage
\* returns or raises, whichever way it ends: commit succeeded, insert failed
\* and rollback ran, cursor creation, rollback or commit failed, or building
\* the rows failed; and it is open only while the with block runs
C15_ConnectionClosed ==
    /\ StoreEnded => ~db.open
    /\ db.open => db.opened /\ pc \in StorePcs \ {"done"}

\* total.lcov as it was right after entry i of calls
TotalAfter(i) == IF i < Len(calls) THEN calls[i + 1].total ELSE total

\* total.lcov as the loop over the eligible tests found it
TotalBeforeLoop ==
    calls[CHOOSE i \in CallsOf("cov-analyze") : \A j \in CallsOf("cov-analyze") : i <= j].total

\* the tests whose rename is among the first i entries of calls
RenamedUpTo(i) == {calls[j].arg : j \in {h \in CallsOf("rename") : h <= i}}

\* C16: after the rename of the k-th processed test total.lcov is the merge of
\* the trace in place before the loop with exactly the traces of the first k
\* processed tests, and the merge of the next test reads that file, whatever
\* the analyzers and mergers did as long as the run went on
C16_CumulativeTrace ==
    \A i \in CallsOf("rename") :
        /\ TotalAfter(i) = Trace(TotalBeforeLoop.src,
                                 TotalBeforeLoop.tests \cup RenamedUpTo(i),
                                 TotalBeforeLoop.ok)
        /\ \A j \in CallsOf("lcov") :
              (j > i /\ \A h \in CallsOf("rename") : ~(i < h /\ h < j)) =>
                  calls[j].total = TotalAfter(i)

\* the loop over the eligible tests has run to its end
LoopDone == pc \in FinalizedPcs \cup {"done"}

\* C17: the loop handles one eligible test at a time: an analyzer invocation,
\* the store of its parsed output, a merger invocation and a rename, in that
\* order and for the same test, with no step of another test in between and
\* each tool exited before the next starts; no test is analyzed twice, none
\* that is not eligible is analyzed or merged; and when the loop has run to
\* its end every eligible test has had its four steps
C17_PerTestProtocol ==
    /\ pc \in MidStorePcs \/ \A i \in 1..Len(calls) :
          /\ i < Len(calls) => calls[i].rc # NoStatus
          /\ calls[i].tool = "cov-analyze" =>
                /\ i > 1 => calls[i - 1].tool \in {"cov-init", "rename"}
                /\ \A j \in CallsOf("cov-analyze") : calls[j].arg = calls[i].arg => j = i
                /\ (i < Len(calls) \/ pc \notin {"aborted", "crashed"}) =>
                      Description(test_summaries[calls[i].arg], calls[i].arg)
                          \in DOMAIN test_coverage
          /\ calls[i].tool = "lcov" =>
                i > 1 /\ calls[i - 1].tool = "cov-analyze" /\ calls[i - 1].arg = calls[i].arg
          /\ calls[i].tool = "rename" =>
                i > 1 /\ calls[i - 1].tool = "lcov" /\ calls[i - 1].arg = calls[i].arg
          /\ calls[i].tool = "genhtml" => calls[i - 1].tool = "rename"
    /\ pc \in MidStorePcs \/ {calls[i].arg : i \in CallsOf("cov-analyze")} \subseteq Selected
    /\ LoopDone => {calls[i].arg : i \in CallsOf("rename")} = Selected

\* a run over two eligible tests, beside a hidden directory, that has ended
\* without a failure
C17_Witness ==
    /\ pc = "done"
    /\ Cardinality(Selected) = 2
    /\ IsCandidate(dir, "a") /\ dir[".hid"].exists
    /\ Cardinality(CallsOf("cov-analyze")) = 2
    /\ Cardinality(CallsOf("rename")) = 2

\* the initializer ran and exited with a non-zero status
InitFailed == calls # <<>> /\ calls[1].tool = "cov-init" /\ calls[1].rc # 0

\* C18: a non-zero exit status of the initializer ends the run at once with
\* CalledProcessError: total.lcov is what it was, no analyzer, merger or
\* genhtml runs, no dataset entry is made and the database is not touched,
\* whatever the initializer left at base.lcov;
\* and total.lcov is replaced by base.lcov only after the initializer exited
\* with status zero
C18_InitFailureFatal ==
    /\ InitFailed =>
          /\ pc = "aborted" /\ exc = "CalledProcessError"
          /\ Len(calls) = 1
          /\ total = total0 /\ lcovs = {} /\ ~html
          /\ test_coverage = EmptyDict
          /\ db = NoDb /\ rows = {}
    /\ (pc = "copy" \/ (~skip_init /\ total # total0)) =>
          calls # <<>> /\ calls[1].tool = "cov-init" /\ calls[1].rc = 0

\* a run over a directory with a total.lcov of an earlier run whose
\* initializer failed after it had written base.lcov
C18_Witness ==
    /\ InitFailed
    /\ pc = "aborted"
    /\ ~skip_init
    /\ total = PrevTotal
    /\ base = BaseTrace
    /\ EligibleTests(dir) # {}

\* C19: the exit status of the analyzer and of the merger decides nothing:
\* after an analyzer has exited, with whatever status, the entry parsed from
\* its output is recorded and the merge of the same test is attempted; after
\* a merger has exited, with whatever status, the rename is attempted; and
\* after the rename the loop goes on to the next eligible test (whose
\* analyzer may fail to start)
C19_ExitStatusIgnored ==
    pc \in MidStorePcs \/ \A i \in 1..Len(calls) :
        /\ calls[i].tool = "cov-analyze" =>
              /\ i < Len(calls) =>
                    calls[i + 1].tool = "lcov" /\ calls[i + 1].arg = calls[i].arg
              /\ i = Len(calls) =>
                    IF read_coverage(calls[i].out).raised
                    THEN pc = "aborted" /\ exc = "ValueError"
                    ELSE /\ test_coverage[Description(summary, test)]
                               = read_coverage(calls[i].out).coverage
                         /\ pc = "merge" \/ (pc = "aborted" /\ exc = "OSError")
        /\ (calls[i].tool = "lcov" /\ calls[i].rc # NoStatus) =>
              /\ i < Len(calls) =>
                    calls[i + 1].tool = "rename" /\ calls[i + 1].arg = calls[i].arg
              /\ i = Len(calls) =>
                    pc = "rename" \/ (pc = "aborted" /\ exc = "OSError" /\ tmp = Absent)
        /\ (calls[i].tool = "rename" /\ i = Len(calls) /\ todo # {}) =>
              pc = "analyze" \/ (pc = "aborted" /\ exc = "OSError")

\* a run that ended without a failure although an analyzer and a merger
\* exited with a non-zero status and another test was handled after them
C19_Witness ==
    /\ pc = "done"
    /\ \E i \in CallsOf("cov-analyze") : calls[i].rc = 1
    /\ \E i \in CallsOf("lcov") :
          calls[i].rc = 1 /\ \E j \in CallsOf("cov-analyze") : j > i

\* the eligible test the loop handled last
LastProcessed == calls[LastExited("cov-analyze")].arg

\* C20: every row one run builds and persists carries the same suite label
\* and the same revision: the 'ceph-sha1' of the summary of the eligible
\* test the loop handled last, also when the tests record different
\* revisions; the revision of a row is not taken from the row's own test
C20_OneRevisionPerRun ==
    (rows = {} \/ pc \in MidStorePcs \ {"cursor"}) \/
        /\ LET rev == MergedSummary(dir, LastProcessed)["ceph-sha1"]
           IN \A r \in rows : r[1] = rev /\ r[3] = Suite
        /\ db.committed \ PriorRows \subseteq rows

\* a finished run over tests of revisions r1 and r2 whose persisted row for
\* the test described as d1, itself of revision r1, carries r2
C20_Witness ==
    /\ pc = "done"
    /\ \E f \in Selected : MergedSummary(dir, f)["ceph-sha1"] = "r1"
    /\ \E r \in db.committed \ PriorRows : r[2] = "d1" /\ r[1] = "r2"
    /\ \A r \in db.committed \ PriorRows : r[1] = "r2"

====
